---- MODULE Spec2Model ----
(***************************************************************************)
(* A model of handler.py: the AWS Lambda entry point `handler`, which      *)
(* inspects a GitHub check_suite webhook delivery against the module-level *)
(* `config` and answers with an "ignored" reply, an alert acknowledgement, *)
(* a 400, or dies with an uncaught exception.                              *)
(*                                                                         *)
(* Python values are modelled as follows.  str is a TLA+ string, int an    *)
(* integer, a list of the config a sequence, dict a function on its keys   *)
(* (a record).  In a parsed body JSON null is Null and a JSON list is      *)
(* JsonList(items).  An optional value (None or x) is <<>> or <<x>>.  A call *)
(* that may raise returns [raised, exc, value].  The lines printed by      *)
(* debug() are threaded through the handler as the sequence `lg`.          *)
(***************************************************************************)
EXTENDS Integers, Sequences, FiniteSets, TLC

VARIABLES
    config,   \* the module-level config dict (handler.py:16-33)
    pc,       \* "idle": the runtime waits for an event; "returned": handler has ended
    event,    \* the LambdaHTTPEvent of the invocation that just ended
    outcome,  \* how it ended: [kind, statusCode, body, exc]
    locals,   \* handler's local variables when it ended
    log,      \* the lines the invocation printed, in order
    prev      \* an earlier invocation, as noted by an observer: <<>> or <<[event, outcome, log]>>

vars == <<config, pc, event, outcome, locals, log, prev>>

----------------------------------------------------------------------------
(* Bounds of the model *)

\* longest check_suite.pull_requests list
MaxPRs == 2
\* longest head_sha; sha_length ranges over -(MaxShaLen+1) .. MaxShaLen+1
MaxShaLen == 3

----------------------------------------------------------------------------
(* Python built-ins *)

Min(a, b) == IF a <= b THEN a ELSE b
Max(a, b) == IF a >= b THEN a ELSE b

\* x in lst
Contains(lst, x) == \E i \in 1..Len(lst) : lst[i] = x

\* a slice that keeps one character too many
PySliceOneMore(s, n) ==
    LET stop == IF n >= 0 THEN Min(n + 1, Len(s)) ELSE Max(Len(s) + n + 1, 0)
    IN  SubSeq(s, 1, stop)

\* s[:n] for a str s and an int n: a negative n counts from the end
PySliceTo(s, n) ==
    LET stop == IF n >= 0 THEN Min(n, Len(s)) ELSE Max(Len(s) + n, 0)
    IN  SubSeq(s, 1, stop)

\* the first index >= i at which character c occurs in s, or 0
RECURSIVE Find(_, _, _)
Find(s, c, i) ==
    IF i > Len(s) THEN 0
    ELSE IF SubSeq(s, i, i) = c THEN i
    ELSE Find(s, c, i + 1)

HasChar(s, c) == \E i \in 1..Len(s) : SubSeq(s, i, i) = c

\* repr(s) for a str without backslashes: single quotes, unless s holds a
\* single quote and no double quote
PyRepr(s) ==
    IF HasChar(s, "'") /\ ~HasChar(s, "\"")
    THEN "\"" \o s \o "\""
    ELSE "'" \o s \o "'"

\* repr of a list of ints
RECURSIVE IntListItems(_, _)
IntListItems(lst, i) ==
    IF i > Len(lst) THEN ""
    ELSE ToString(lst[i]) \o (IF i < Len(lst) THEN ", " ELSE "") \o IntListItems(lst, i + 1)

IntListRepr(lst) == "[" \o IntListItems(lst, 1) \o "]"

\* str.format(**kw) on a template of literal text and {name} fields (no
\* {{ }} escapes, no format specs): an unknown name raises KeyError, an
\* unclosed brace ValueError
RECURSIVE StrFormatFrom(_, _, _, _)
StrFormatFrom(t, kw, i, acc) ==
    LET open == Find(t, "{", i) IN
    IF open = 0
    THEN [raised |-> FALSE, exc |-> "", value |-> acc \o SubSeq(t, i, Len(t))]
    ELSE LET close == Find(t, "}", open + 1) IN
         IF close = 0
         THEN [raised |-> TRUE, exc |-> "ValueError", value |-> ""]
         ELSE LET name == SubSeq(t, open + 1, close - 1) IN
              IF name \notin DOMAIN kw
              THEN [raised |-> TRUE, exc |-> "KeyError", value |-> ""]
              ELSE StrFormatFrom(t, kw, close + 1,
                                 acc \o SubSeq(t, i, open - 1) \o kw[name])

StrFormat(t, kw) == StrFormatFrom(t, kw, 1, "")

\* json.dumps of a dict with the single key "message" and a plain str value
JsonDumps(d) == "{\"message\": \"" \o d.message \o "\"}"

\* JSON null and a JSON list, as json.loads returns them (None, list)
Null == [null |-> TRUE]
JsonList(items) == [list |-> TRUE, items |-> items]
IsNull(v) == "null" \in DOMAIN v
IsList(v) == "list" \in DOMAIN v

\* d[k] for a str k: TypeError on None or a list, KeyError on a dict without k
GetItem(d, k) ==
    IF IsNull(d) \/ IsList(d)
    THEN [raised |-> TRUE, exc |-> "TypeError", value |-> Null]
    ELSE IF k \notin DOMAIN d
    THEN [raised |-> TRUE, exc |-> "KeyError", value |-> Null]
    ELSE [raised |-> FALSE, exc |-> "", value |-> d[k]]

\* d[p1][p2]..., evaluated left to right
RECURSIVE GetPath(_, _)
GetPath(d, path) ==
    IF path = <<>> THEN [raised |-> FALSE, exc |-> "", value |-> d]
    ELSE LET x == GetItem(d, Head(path)) IN
         IF x.raised THEN x ELSE GetPath(x.value, Tail(path))

\* dict.get(k): None when k is no key of d; keys are compared as they are
DictGet(d, k) == IF k \in DOMAIN d THEN <<d[k]>> ELSE <<>>

\* json.loads(event["body"]).  A body is [kind, text, doc]:
\*   "none"   the host passed None
\*   "deep"   the str "[" * 100000: arrays opened beyond the interpreter's
\*            recursion limit, on which the decoder raises RecursionError
\*   "object" a str holding a JSON object, whose parsed value is doc
\*   "str"    the str `text`
\* JSONDecodeError carries the parser's message.
NoDoc == [nodoc |-> TRUE]

json_loads(b) ==
    CASE b.kind = "none" ->
           [raised |-> TRUE, exc |-> "TypeError", msg |-> "", value |-> Null]
      [] b.kind = "deep" ->
           [raised |-> TRUE, exc |-> "RecursionError", msg |-> "", value |-> Null]
      [] b.kind = "object" ->
           [raised |-> FALSE, exc |-> "", msg |-> "", value |-> b.doc]
      [] b.kind = "str" /\ b.text = "[]" ->
           [raised |-> FALSE, exc |-> "", msg |-> "", value |-> JsonList(<<>>)]
      [] b.kind = "str" /\ b.text = "null" ->
           [raised |-> FALSE, exc |-> "", msg |-> "", value |-> Null]
      [] b.kind = "str" /\ b.text = "" ->
           [raised |-> TRUE, exc |-> "JSONDecodeError",
            msg |-> "Expecting value: line 1 column 1 (char 0)", value |-> Null]
      [] b.kind = "str" /\ b.text = "{" ->
           [raised |-> TRUE, exc |-> "JSONDecodeError",
            msg |-> "Expecting property name enclosed in double quotes: line 1 column 2 (char 1)",
            value |-> Null]

----------------------------------------------------------------------------
(* handler.py *)

\* config as shipped
ShippedConfig ==
    [repos |-> <<23038334, 33104844>>,
     branches |-> <<"master", "github-actions">>,
     conclusions |-> <<"failure", "action_required", "timed_out">>,
     watch_prs |-> TRUE,
     sha_length |-> 8,
     message_template |->
       "Build {conclusion} at {commit_desc} (by {committer}). Details: {commit_html_url}"]

\* handler's locals before the response variables are built
NoLocals ==
    [matching_pr |-> <<>>, sha |-> "", commit_desc |-> "", commit_html_url |-> "",
     committer |-> "", message |-> ""]

debug(lg, msg) == Append(lg, "DEBUG: " \o msg)

\* f"{resp}" of a LambdaResponse
RespRepr(resp) ==
    "{'statusCode': " \o ToString(resp.statusCode) \o ", 'body': " \o PyRepr(resp.body) \o "}"

send_reply(lg, resp, loc) ==
    [log |-> debug(lg, "Sending reply: " \o RespRepr(resp)),
     kind |-> "reply", statusCode |-> resp.statusCode, body |-> resp.body,
     exc |-> "", locals |-> loc]

error(lg, msg) == send_reply(lg, [statusCode |-> 400, body |-> msg], NoLocals)

ok(lg, msg, loc) == send_reply(lg, [statusCode |-> 200, body |-> msg], loc)

\* an exception nothing in handler catches
Raise(lg, exc) ==
    [log |-> lg, kind |-> "fault", statusCode |-> 0, body |-> "", exc |-> exc,
     locals |-> NoLocals]

\* lines 189-198: the response variables of the PR path or the branch path
response_vars(cfg, check_suite, matching_pr, branch, owner_base_url, repo_name) ==
    IF matching_pr # <<>>
    THEN LET pr_num == GetItem(matching_pr[1], "number") IN
         IF pr_num.raised
         THEN [raised |-> TRUE, exc |-> pr_num.exc, sha |-> "", commit_desc |-> "",
               commit_html_url |-> ""]
         ELSE [raised |-> FALSE, exc |-> "", sha |-> "",
               commit_desc |-> "PR #" \o ToString(pr_num.value),
               commit_html_url |-> owner_base_url \o "/" \o repo_name \o "/pull/"
                                   \o ToString(pr_num.value) \o "#partial-pull-merging"]
    ELSE LET head_sha == GetItem(check_suite, "head_sha") IN
         IF head_sha.raised
         THEN [raised |-> TRUE, exc |-> head_sha.exc, sha |-> "", commit_desc |-> "",
               commit_html_url |-> ""]
         ELSE LET sha == PySliceTo(head_sha.value, cfg.sha_length) IN
              [raised |-> FALSE, exc |-> "", sha |-> sha,
               commit_desc |-> sha \o " (branch " \o branch \o ")",
               commit_html_url |-> owner_base_url \o "/" \o repo_name \o "/commit/" \o sha]

\* a format_and_reply that answers with the message it formatted
format_and_reply_message(cfg, conclusion, loc, lg) ==
    LET message == StrFormat(cfg.message_template,
                             [conclusion |-> conclusion,
                              commit_desc |-> loc.commit_desc,
                              committer |-> loc.committer,
                              commit_html_url |-> loc.commit_html_url])
    IN  IF message.raised THEN Raise(lg, message.exc)
        ELSE LET resp == [message |-> message.value] IN
             ok(debug(lg, "Message is: " \o message.value), JsonDumps(resp),
                [loc EXCEPT !.message = message.value])

\* lines 200-209: format the message, log it, acknowledge
format_and_reply(cfg, conclusion, loc, lg) ==
    LET message == StrFormat(cfg.message_template,
                             [conclusion |-> conclusion,
                              commit_desc |-> loc.commit_desc,
                              committer |-> loc.committer,
                              commit_html_url |-> loc.commit_html_url])
    IN  IF message.raised THEN Raise(lg, message.exc)
        ELSE LET resp == [message |-> "We cared about this message!"] IN
             ok(debug(lg, "Message is: " \o message.value), JsonDumps(resp),
                [loc EXCEPT !.message = message.value])

\* lines 185-198: read the fields the message needs
build_response(cfg, body, check_suite, conclusion, matching_pr, branch, lg) ==
    LET owner_base_url == GetPath(body, <<"repository", "owner", "html_url">>)
        repo_name == GetPath(body, <<"repository", "name">>)
        committer == GetPath(check_suite, <<"head_commit", "committer", "name">>)
    IN  IF owner_base_url.raised THEN Raise(lg, owner_base_url.exc)
        ELSE IF repo_name.raised THEN Raise(lg, repo_name.exc)
        ELSE IF committer.raised THEN Raise(lg, committer.exc)
        ELSE LET rv == response_vars(cfg, check_suite, matching_pr, branch,
                                     owner_base_url.value, repo_name.value)
             IN  IF rv.raised THEN Raise(lg, rv.exc)
                 ELSE format_and_reply(cfg, conclusion,
                        [matching_pr |-> matching_pr, sha |-> rv.sha,
                         commit_desc |-> rv.commit_desc,
                         commit_html_url |-> rv.commit_html_url,
                         committer |-> committer.value, message |-> ""], lg)

\* lines 178-183: without a matching PR the branch must be a watched one
check_branch(cfg, body, check_suite, conclusion, matching_pr, lg) ==
    LET branch == GetItem(check_suite, "head_branch") IN
    IF branch.raised THEN Raise(lg, branch.exc)
    ELSE IF matching_pr = <<>>
    THEN IF ~Contains(cfg.branches, branch.value)
         THEN ok(lg, "Ignored based on no matching PR/branch", NoLocals)
         ELSE build_response(cfg, body, check_suite, conclusion, matching_pr, branch.value,
                             debug(lg, "Alerting on branch " \o branch.value))
    ELSE build_response(cfg, body, check_suite, conclusion, matching_pr, branch.value, lg)

\* a scan without the break: the last matching PR wins
RECURSIVE scan_prs_no_break(_, _, _, _)
scan_prs_no_break(cfg, prs, i, lg) ==
    IF i > Len(prs)
    THEN [raised |-> FALSE, exc |-> "", match |-> <<>>, log |-> lg]
    ELSE LET id == GetPath(prs[i], <<"base", "repo", "id">>) IN
         IF id.raised
         THEN [raised |-> TRUE, exc |-> id.exc, match |-> <<>>, log |-> lg]
         ELSE IF Contains(cfg.repos, id.value)
         THEN LET rest == scan_prs_no_break(cfg, prs, i + 1,
                                            debug(lg, "PR {...} is a match"))
              IN  IF rest.raised \/ rest.match # <<>> THEN rest
                  ELSE [rest EXCEPT !.match = <<prs[i]>>]
         ELSE scan_prs_no_break(cfg, prs, i + 1, lg)

\* lines 173-177: the first PR, in list order, whose base repo is watched.
\* The repr of the PR dict in the debug line is elided.
RECURSIVE scan_prs(_, _, _, _)
scan_prs(cfg, prs, i, lg) ==
    IF i > Len(prs)
    THEN [raised |-> FALSE, exc |-> "", match |-> <<>>, log |-> lg]
    ELSE LET id == GetPath(prs[i], <<"base", "repo", "id">>) IN
         IF id.raised
         THEN [raised |-> TRUE, exc |-> id.exc, match |-> <<>>, log |-> lg]
         ELSE IF Contains(cfg.repos, id.value)
         THEN [raised |-> FALSE, exc |-> "", match |-> <<prs[i]>>,
               log |-> debug(lg, "PR {...} is a match")]
         ELSE scan_prs(cfg, prs, i + 1, lg)

\* lines 168-177: look for a matching PR when watch_prs is True
find_matching_pr(cfg, body, check_suite, conclusion, lg) ==
    IF cfg.watch_prs = TRUE
    THEN LET lg1 == debug(lg, "Looking for PRs in " \o IntListRepr(cfg.repos))
             prs == GetItem(check_suite, "pull_requests")
         IN  IF prs.raised THEN Raise(lg1, prs.exc)
             ELSE IF IsNull(prs.value) THEN Raise(lg1, "TypeError")
             ELSE LET found == scan_prs(cfg, prs.value.items, 1, lg1) IN
                  IF found.raised THEN Raise(found.log, found.exc)
                  ELSE check_branch(cfg, body, check_suite, conclusion, found.match,
                                    found.log)
    ELSE check_branch(cfg, body, check_suite, conclusion, <<>>, lg)

\* a check_repository that lets every repository through
check_repository_unchecked(cfg, body, check_suite, conclusion, lg) ==
    LET base_repo_id == GetPath(body, <<"repository", "id">>) IN
    IF base_repo_id.raised THEN Raise(lg, base_repo_id.exc)
    ELSE find_matching_pr(cfg, body, check_suite, conclusion, lg)

\* lines 163-166
check_repository(cfg, body, check_suite, conclusion, lg) ==
    LET base_repo_id == GetPath(body, <<"repository", "id">>) IN
    IF base_repo_id.raised THEN Raise(lg, base_repo_id.exc)
    ELSE IF ~Contains(cfg.repos, base_repo_id.value)
    THEN ok(lg, "Ignored based on non-watched base repository ("
                \o ToString(base_repo_id.value) \o ")", NoLocals)
    ELSE find_matching_pr(cfg, body, check_suite, conclusion, lg)

\* lines 157-161: the alertable conclusions are the literal tuple of line 158
check_conclusion(cfg, body, check_suite, lg) ==
    LET conclusion == GetItem(check_suite, "conclusion") IN
    IF conclusion.raised THEN Raise(lg, conclusion.exc)
    ELSE IF conclusion.value \notin {"failure", "action_required", "timed_out"}
    THEN ok(lg, "Ignored based on check_suite conclusion not in ('failure', 'action_required', 'timed_out')",
            NoLocals)
    ELSE check_repository(cfg, body, check_suite, conclusion.value, lg)

\* lines 153-155
check_status(cfg, body, lg) ==
    LET check_suite == GetItem(body, "check_suite") IN
    IF check_suite.raised THEN Raise(lg, check_suite.exc)
    ELSE LET status == GetItem(check_suite.value, "status") IN
         IF status.raised THEN Raise(lg, status.exc)
         ELSE IF status.value # "completed"
         THEN ok(lg, "Ignored based on check_suite status != completed", NoLocals)
         ELSE check_conclusion(cfg, body, check_suite.value, lg)

\* a check_action that reads check_suite.status before it tests action
check_action_late(cfg, body, lg) ==
    LET action == GetItem(body, "action")
        status == GetPath(body, <<"check_suite", "status">>)
    IN  IF action.raised THEN Raise(lg, action.exc)
        ELSE IF status.raised THEN Raise(lg, status.exc)
        ELSE IF action.value # "completed"
        THEN ok(lg, "Ignored based on action != completed", NoLocals)
        ELSE check_status(cfg, body, lg)

\* lines 150-151
check_action(cfg, body, lg) ==
    LET action == GetItem(body, "action") IN
    IF action.raised THEN Raise(lg, action.exc)
    ELSE IF action.value # "completed"
    THEN ok(lg, "Ignored based on action != completed", NoLocals)
    ELSE check_status(cfg, body, lg)

\* lines 145-148: only JSONDecodeError is caught
parse_body(cfg, ev, lg) ==
    LET parsed == json_loads(ev.body) IN
    IF parsed.raised
    THEN IF parsed.exc = "JSONDecodeError"
         THEN error(lg, "Couldn't parse body (" \o parsed.msg \o ")")
         ELSE Raise(lg, parsed.exc)
    ELSE check_action(cfg, parsed.value, lg)

\* a validate_event that parses the body before it tests the event type
validate_event_parse_first(cfg, ev, lg) ==
    LET event_type == DictGet(ev.headers, "X-GitHub-Event")
        parsed == json_loads(ev.body)
    IN  IF event_type = <<>> THEN error(lg, "Missing X-GitHub-Event header")
        ELSE IF parsed.raised
        THEN IF parsed.exc = "JSONDecodeError"
             THEN error(lg, "Couldn't parse body (" \o parsed.msg \o ")")
             ELSE Raise(lg, parsed.exc)
        ELSE IF event_type[1] # "check_suite"
        THEN ok(lg, "Ignored based on X-GitHub-Event value", NoLocals)
        ELSE check_action(cfg, parsed.value, lg)

\* lines 138-143: the event type is looked up under the exact key
validate_event(cfg, ev, lg) ==
    LET event_type == DictGet(ev.headers, "X-GitHub-Event") IN
    IF event_type = <<>> THEN error(lg, "Missing X-GitHub-Event header")
    ELSE IF event_type[1] # "check_suite"
    THEN ok(lg, "Ignored based on X-GitHub-Event value", NoLocals)
    ELSE parse_body(cfg, ev, lg)

\* lines 135-209.  The repr of the event in the first debug line is elided.
handler(cfg, ev) == validate_event(cfg, ev, debug(<<>>, "Hello. Event: {...}"))

\* a handler that drops the repository it has just looked at from the watch list
config_after_forgetting(cfg, ev) ==
    IF Len(cfg.repos) > 1 /\ ev.body.kind = "object"
    THEN [cfg EXCEPT !.repos = Tail(@)]
    ELSE cfg

\* handler holds no assignment to config and calls no mutating method on
\* its lists: config after the call is config before it
config_after(cfg, ev) == cfg

----------------------------------------------------------------------------
(* The requests the host delivers *)

SeqsUpTo(S, n) == UNION {[1..k -> S] : k \in 0..n}

\* a dict without the key at the end of `path`
RECURSIVE Without(_, _)
Without(d, path) ==
    IF Len(path) = 1
    THEN [k \in (DOMAIN d) \ {path[1]} |-> d[k]]
    ELSE [d EXCEPT ![path[1]] = Without(@, Tail(path))]

\* a dict with null at the end of `path`
RECURSIVE WithNull(_, _)
WithNull(d, path) ==
    IF Len(path) = 1
    THEN [d EXCEPT ![path[1]] = Null]
    ELSE [d EXCEPT ![path[1]] = WithNull(@, Tail(path))]

\* a pull_requests entry (GitHubWebhookPayloadPullRequest, the fields read)
PullRequest(id, number) == [number |-> number, base |-> [repo |-> [id |-> id]]]

\* a check_suite payload (GitHubWebhookPayload, the fields read)
Payload(action, status, conclusion, repo_id, prs, head_branch, head_sha, committer) ==
    [action |-> action,
     check_suite |->
        [status |-> status, conclusion |-> conclusion, head_branch |-> head_branch,
         head_sha |-> head_sha, pull_requests |-> JsonList(prs),
         head_commit |-> [committer |-> [name |-> committer]]],
     repository |->
        [id |-> repo_id, name |-> "crawl",
         owner |-> [html_url |-> "https://github.com/crawl"]]]

ObjectBody(doc) == [kind |-> "object", text |-> "", doc |-> doc]
StrBody(text) == [kind |-> "str", text |-> text, doc |-> NoDoc]
NoneBody == [kind |-> "none", text |-> "", doc |-> NoDoc]
DeepBody == [kind |-> "deep", text |-> "", doc |-> NoDoc]

\* a header map with Content-Type and, under `name`, the event type
Headers(name, value) ==
    [h \in {"Content-Type", name} |->
        IF h = "Content-Type" THEN "application/json" ELSE value]
NoEventHeaders == [h \in {"Content-Type"} |-> "application/json"]
CheckSuiteHeaders == Headers("X-GitHub-Event", "check_suite")

LambdaHTTPEvent(headers, body) == [headers |-> headers, body |-> body]

HeadSha == "0123456789abcdef0123456789abcdef01234567"

\* Every payload with all fields present, over a few values of each field
FullPayloads ==
    {Payload(a, s, c, r, prs, b, HeadSha, "Alice") :
        a \in {"completed", "requested"},
        s \in {"completed", "in_progress"},
        c \in {"failure", "timed_out", "cancelled", "success"},
        r \in {23038334, 33104844, 7},
        prs \in SeqsUpTo({PullRequest(id, n) : id \in {23038334, 33104844}, n \in {42, 7}},
                         MaxPRs),
        b \in {"master", "topic"}}

FullEvents == {LambdaHTTPEvent(CheckSuiteHeaders, ObjectBody(p)) : p \in FullPayloads}

\* The configs of the model: config as shipped, with other watch lists
Configs ==
    {[ShippedConfig EXCEPT !.repos = r, !.branches = b, !.watch_prs = w, !.conclusions = c] :
        r \in {ShippedConfig.repos, <<33104844>>},
        b \in {ShippedConfig.branches, <<"github-actions">>},
        w \in BOOLEAN,
        c \in {ShippedConfig.conclusions, <<"failure">>, <<"failure", "cancelled">>}}

\* Requests under every header map of the model: no event-type header, or
\* one of three spellings of its name with one of two values.  Bodies: None,
\* unparsable text, JSON that is no object, over-deep JSON, and payloads
\* with one field absent or null.
HeaderNames == {"X-GitHub-Event", "x-github-event", "X-Github-Event"}
HeaderMaps ==
    {NoEventHeaders} \cup {Headers(n, v) : n \in HeaderNames, v \in {"check_suite", "push"}}

TextBodies ==
    {NoneBody, DeepBody, StrBody(""), StrBody("{"), StrBody("[]"), StrBody("null")}

\* the fields handler reads, as paths into the payload
FieldPaths ==
    {<<"action">>, <<"check_suite">>, <<"check_suite", "status">>,
     <<"check_suite", "conclusion">>, <<"check_suite", "pull_requests">>,
     <<"check_suite", "head_branch">>, <<"check_suite", "head_sha">>,
     <<"check_suite", "head_commit">>, <<"check_suite", "head_commit", "committer">>,
     <<"check_suite", "head_commit", "committer", "name">>,
     <<"repository">>, <<"repository", "id">>, <<"repository", "name">>,
     <<"repository", "owner">>, <<"repository", "owner", "html_url">>}
\* those that hold a dict or a list
ContainerPaths ==
    {<<"check_suite">>, <<"check_suite", "pull_requests">>, <<"check_suite", "head_commit">>,
     <<"check_suite", "head_commit", "committer">>, <<"repository">>,
     <<"repository", "owner">>}
\* the fields handler reads of a pull_requests entry
PRFieldPaths == {<<"number">>, <<"base">>, <<"base", "repo">>, <<"base", "repo", "id">>}

Defects ==
    {[how |-> "none", path |-> <<>>]}
    \cup {[how |-> "absent", path |-> p] : p \in FieldPaths}
    \cup {[how |-> "null", path |-> p] : p \in ContainerPaths}
    \cup {[how |-> "pr_absent", path |-> p] : p \in PRFieldPaths}

\* payload p with defect f; a pr_absent defect is in the first pull_requests entry
Defective(p, f) ==
    CASE f.how = "none" -> p
      [] f.how = "absent" -> Without(p, f.path)
      [] f.how = "null" -> WithNull(p, f.path)
      [] f.how = "pr_absent" ->
            IF p.check_suite.pull_requests.items = <<>> THEN p
            ELSE [p EXCEPT !.check_suite.pull_requests.items[1] = Without(@, f.path)]

DefectivePayloads ==
    {Defective(Payload(a, s, c, r, prs, b, HeadSha, "Alice"), f) :
        a \in {"completed", "requested"},
        s \in {"completed", "in_progress"},
        c \in {"failure", "success"},
        r \in {23038334, 7},
        prs \in {<<>>, <<PullRequest(23038334, 42)>>, <<PullRequest(7, 7)>>,
                 <<PullRequest(7, 7), PullRequest(23038334, 42)>>},
        b \in {"master", "topic"},
        f \in Defects}

FaultEvents ==
    {LambdaHTTPEvent(h, b) :
        h \in HeaderMaps, b \in TextBodies \cup {ObjectBody(p) : p \in DefectivePayloads}}

FaultConfigs == {[ShippedConfig EXCEPT !.watch_prs = w] : w \in BOOLEAN}

\* Events that pass steps 1-4 under every config of the model, with every
\* pull_requests list of up to MaxPRs entries, sound or lacking a field
PREntries ==
    {PullRequest(id, n) : id \in {23038334, 33104844, 7}, n \in {42, 7}}
    \cup {Without(PullRequest(23038334, 42), <<"base">>),
          Without(PullRequest(23038334, 42), <<"number">>)}

PREvents ==
    {LambdaHTTPEvent(CheckSuiteHeaders,
                     ObjectBody(Payload("completed", "completed", "failure", 33104844, prs,
                                        b, HeadSha, "Alice"))) :
        prs \in SeqsUpTo(PREntries, MaxPRs), b \in {"master", "github-actions", "topic"}}

PRConfigs ==
    {[ShippedConfig EXCEPT !.repos = r, !.watch_prs = w] :
        r \in {ShippedConfig.repos, <<33104844>>}, w \in BOOLEAN}

\* Events that pass steps 1-4, with every head_sha of up to MaxShaLen
\* characters (and one of 40), under every sha_length within MaxShaLen + 1 of 0
RECURSIVE HexStrings(_)
HexStrings(n) ==
    IF n = 0 THEN {""}
    ELSE HexStrings(n - 1) \cup {s \o c : s \in HexStrings(n - 1), c \in {"0", "f"}}

ShaEvents ==
    {LambdaHTTPEvent(CheckSuiteHeaders,
                     ObjectBody(Payload("completed", "completed", "timed_out", 23038334, prs,
                                        b, sha, who))) :
        prs \in {<<>>, <<PullRequest(23038334, 42)>>},
        b \in {"master", "github-actions", "topic"},
        sha \in HexStrings(MaxShaLen) \cup {HeadSha},
        who \in {"Alice", "Bob"}}

ShaConfigs ==
    {[ShippedConfig EXCEPT !.sha_length = n] :
        n \in (-(MaxShaLen + 1) .. (MaxShaLen + 1)) \cup {ShippedConfig.sha_length}}

\* A few events of every outcome, for runs of several invocations
RepeatEvents ==
    {LambdaHTTPEvent(h, b) :
        h \in {NoEventHeaders, CheckSuiteHeaders, Headers("X-GitHub-Event", "push")},
        b \in {NoneBody, DeepBody, StrBody("{")}
              \cup {ObjectBody(Payload(a, "completed", "failure", 23038334, prs, b2,
                                       HeadSha, "Alice")) :
                       a \in {"completed", "requested"},
                       prs \in {<<>>, <<PullRequest(33104844, 42)>>},
                       b2 \in {"master", "topic"}}
              \cup {ObjectBody(Without(Payload("completed", "completed", "failure", 23038334,
                                               <<>>, "master", HeadSha, "Alice"),
                                       <<"check_suite", "head_commit">>))}}

RepeatConfigs ==
    {[ShippedConfig EXCEPT !.repos = r, !.watch_prs = w] :
        r \in {ShippedConfig.repos, <<23038334>>}, w \in BOOLEAN}

----------------------------------------------------------------------------
(* The state machine: the runtime calls handler with one event at a time *)

NoEvent == LambdaHTTPEvent(NoEventHeaders, NoneBody)
NoOutcome == [kind |-> "none", statusCode |-> 0, body |-> "", exc |-> ""]

Idle ==
    /\ pc = "idle"
    /\ event = NoEvent
    /\ outcome = NoOutcome
    /\ locals = NoLocals
    /\ log = <<>>
    /\ prev = <<>>

\* handler(event, context) runs, on one of `events`, from its first line to
\* its return or raise
Invoke(events) ==
    /\ pc = "idle"
    /\ \E ev \in events :
        /\ LET r == handler(config, ev) IN
            /\ outcome' = [kind |-> r.kind, statusCode |-> r.statusCode, body |-> r.body,
                           exc |-> r.exc]
            /\ locals' = r.locals
            /\ log' = r.log
        /\ event' = ev
        /\ config' = config_after(config, ev)
    /\ pc' = "returned"
    /\ UNCHANGED prev

\* the runtime takes the response (or the fault); the invocation's frame is gone
Reply ==
    /\ pc = "returned"
    /\ pc' = "idle"
    /\ event' = NoEvent
    /\ outcome' = NoOutcome
    /\ locals' = NoLocals
    /\ log' = <<>>
    /\ UNCHANGED <<config, prev>>

\* the same, with an observer noting the first invocation it sees
ReplyNoted ==
    /\ pc = "returned"
    /\ pc' = "idle"
    /\ prev' = IF prev = <<>>
               THEN <<[event |-> event, outcome |-> outcome, log |-> log]>>
               ELSE prev
    /\ event' = NoEvent
    /\ outcome' = NoOutcome
    /\ locals' = NoLocals
    /\ log' = <<>>
    /\ UNCHANGED config

Init == Idle /\ config \in Configs
Next == Invoke(FullEvents) \/ Reply
Spec == Init /\ [][Next]_vars

InitFaults == Idle /\ config \in FaultConfigs
NextFaults == Invoke(FaultEvents) \/ Reply
SpecFaults == InitFaults /\ [][NextFaults]_vars

InitPR == Idle /\ config \in PRConfigs
NextPR == Invoke(PREvents) \/ Reply
SpecPR == InitPR /\ [][NextPR]_vars

InitSha == Idle /\ config \in ShaConfigs
NextSha == Invoke(ShaEvents) \/ Reply
SpecSha == InitSha /\ [][NextSha]_vars

InitRepeat == Idle /\ config \in RepeatConfigs
NextRepeat == Invoke(RepeatEvents) \/ ReplyNoted
SpecRepeat == InitRepeat /\ [][NextRepeat]_vars

----------------------------------------------------------------------------
(* What the claims speak of *)

StartsWith(s, prefix) == Len(s) >= Len(prefix) /\ SubSeq(s, 1, Len(prefix)) = prefix

Returned == pc = "returned"

\* the payload of the event, when its body holds a JSON object
Doc == event.body.doc
IsObject == event.body.kind = "object"

\* the event type under the exact name X-GitHub-Event
HasEventType == "X-GitHub-Event" \in DOMAIN event.headers
EventType == event.headers["X-GitHub-Event"]

Replied(status, body) ==
    outcome = [kind |-> "reply", statusCode |-> status, body |-> body, exc |-> ""]

AlertBody == "{\"message\": \"We cared about this message!\"}"
Alerted == Replied(200, AlertBody)
Ignored == outcome.kind = "reply" /\ outcome.statusCode = 200
           /\ StartsWith(outcome.body, "Ignored based on ")

\* the conclusions the claims call alertable
Alertable == {"failure", "action_required", "timed_out"}

ConclusionIgnoredBody ==
    "Ignored based on check_suite conclusion not in ('failure', 'action_required', 'timed_out')"

\* the log lines that carry the formatted alert message
MessageLines == {i \in 1..Len(log) : StartsWith(log[i], "DEBUG: Message is: ")}
ScanLines == {i \in 1..Len(log) : StartsWith(log[i], "DEBUG: Looking for PRs in ")}

\* Of a payload with every field present: the claim's condition for an alert
PRMatches(p) ==
    \E i \in 1..Len(p.check_suite.pull_requests.items) :
        Contains(config.repos, p.check_suite.pull_requests.items[i].base.repo.id)

ShouldAlert(p) ==
    /\ p.action = "completed"
    /\ p.check_suite.status = "completed"
    /\ p.check_suite.conclusion \in Alertable
    /\ Contains(config.repos, p.repository.id)
    /\ \/ config.watch_prs /\ PRMatches(p)
       \/ Contains(config.branches, p.check_suite.head_branch)

----------------------------------------------------------------------------
(* C1 *)

\* C1: for a check_suite request whose payload has every consumed field,
\* under every watch list of the model and the shipped alertable conclusions,
\* handler returns the alert response exactly when action and status are
\* "completed", the conclusion is alertable, repository.id is watched, and
\* either watch_prs is on and some pull request targets a watched repo or
\* head_branch is watched; otherwise it returns a 200 "Ignored based on ..."
C1_AlertIffAllPredicates ==
    (/\ Returned /\ HasEventType /\ EventType = "check_suite" /\ IsObject
     /\ config.conclusions = ShippedConfig.conclusions)
    => IF ShouldAlert(Doc) THEN Alerted ELSE Ignored

\* an alert that rests on a pull request alone, under a watch list that is not the shipped one
C1_Witness ==
    /\ Returned /\ Alerted
    /\ config.conclusions = ShippedConfig.conclusions
    /\ config.repos = <<33104844>>
    /\ ~Contains(config.branches, Doc.check_suite.head_branch)
    /\ PRMatches(Doc)

----------------------------------------------------------------------------
(* C3 *)

\* C3: under every config, step 3 passes exactly when check_suite.conclusion
\* is in config["conclusions"], and the suppression of step 3 is decided by
\* that configured list
C3_ConclusionsFromConfig ==
    (/\ Returned /\ HasEventType /\ EventType = "check_suite" /\ IsObject
     /\ Doc.action = "completed" /\ Doc.check_suite.status = "completed")
    => (StartsWith(outcome.body, "Ignored based on check_suite conclusion")
        <=> ~Contains(config.conclusions, Doc.check_suite.conclusion))

----------------------------------------------------------------------------
(* C9 *)

\* the template of line 32 filled in by hand
ExpectedMessage ==
    "Build " \o Doc.check_suite.conclusion \o " at " \o locals.commit_desc
    \o " (by " \o Doc.check_suite.head_commit.committer.name \o "). Details: "
    \o locals.commit_html_url

\* C9: an invocation that reaches an alert verdict returns status 200 with
\* the body {"message": "We cared about this message!"} and nothing of the
\* formatted message; the message is logged once, before the reply is sent;
\* a suppressed invocation logs no message
C9_AlertBodyFixedMessageLoggedOnce ==
    (Returned /\ HasEventType /\ EventType = "check_suite" /\ IsObject)
    => IF ShouldAlert(Doc)
       THEN /\ Alerted
            /\ outcome.body # ExpectedMessage
            /\ \E i \in 1..(Len(log) - 1) :
                 /\ MessageLines = {i}
                 /\ log[i] = "DEBUG: Message is: " \o ExpectedMessage
            /\ log[Len(log)]
                 = "DEBUG: Sending reply: {'statusCode': 200, 'body': '" \o AlertBody \o "'}"
       ELSE MessageLines = {}

\* two alerts that differ in path and conclusion: here the PR one
C9_Witness ==
    /\ Returned /\ Alerted
    /\ locals.matching_pr # <<>>
    /\ Doc.check_suite.conclusion = "timed_out"
    /\ MessageLines # {}

----------------------------------------------------------------------------
(* C2 *)

\* the value at `path` of the payload, when every dict on the way is there
Present(path) == ~GetPath(Doc, path).raised
At(path) == GetPath(Doc, path).value

ActionPasses == Present(<<"action">>) /\ At(<<"action">>) = "completed"
ActionFails == Present(<<"action">>) /\ At(<<"action">>) # "completed"
StatusAt == <<"check_suite", "status">>
StatusPasses == ActionPasses /\ Present(StatusAt) /\ At(StatusAt) = "completed"
StatusFails == ActionPasses /\ Present(StatusAt) /\ At(StatusAt) # "completed"
ConclusionAt == <<"check_suite", "conclusion">>
ConclusionPasses == StatusPasses /\ Present(ConclusionAt) /\ At(ConclusionAt) \in Alertable
ConclusionFails == StatusPasses /\ Present(ConclusionAt) /\ At(ConclusionAt) \notin Alertable
RepoAt == <<"repository", "id">>
RepoPasses == ConclusionPasses /\ Present(RepoAt) /\ Contains(config.repos, At(RepoAt))
RepoFails == ConclusionPasses /\ Present(RepoAt) /\ ~Contains(config.repos, At(RepoAt))
PRsAt == <<"check_suite", "pull_requests">>
\* the PR scan ends without a match: it is off, or every entry names an unwatched base repo
NoMatchingPR ==
    /\ RepoPasses
    /\ \/ ~config.watch_prs
       \/ /\ Present(PRsAt)
          /\ IsList(At(PRsAt))
          /\ \A i \in 1..Len(At(PRsAt).items) :
               LET id == GetPath(At(PRsAt).items[i], <<"base", "repo", "id">>) IN
               ~id.raised /\ ~Contains(config.repos, id.value)
BranchAt == <<"check_suite", "head_branch">>
BranchFails == NoMatchingPR /\ Present(BranchAt) /\ ~Contains(config.branches, At(BranchAt))

\* the lines of an invocation that stopped at `body` before the PR scan
EarlyLog(body) ==
    <<"DEBUG: Hello. Event: {...}",
      "DEBUG: Sending reply: {'statusCode': 200, 'body': " \o PyRepr(body) \o "}">>

\* C2: the predicates are evaluated in the order action, status, conclusion,
\* repository.id, PR scan, head_branch; the reply carries the reason of the
\* earliest failing step and nothing after that step is evaluated, whatever
\* is absent or malformed in the fields read later
C2_FirstFailingStepDecides ==
    (Returned /\ HasEventType /\ EventType = "check_suite" /\ IsObject)
    => /\ ActionFails =>
            /\ Replied(200, "Ignored based on action != completed")
            /\ log = EarlyLog(outcome.body)
       /\ StatusFails =>
            /\ Replied(200, "Ignored based on check_suite status != completed")
            /\ log = EarlyLog(outcome.body)
       /\ ConclusionFails =>
            /\ Replied(200, ConclusionIgnoredBody)
            /\ log = EarlyLog(outcome.body)
       /\ RepoFails =>
            /\ Replied(200, "Ignored based on non-watched base repository ("
                            \o ToString(At(RepoAt)) \o ")")
            /\ log = EarlyLog(outcome.body)
       /\ BranchFails => Replied(200, "Ignored based on no matching PR/branch")

\* action is not "completed" and check_suite is not there at all
C2_Witness ==
    /\ Returned /\ HasEventType /\ EventType = "check_suite" /\ IsObject
    /\ ActionFails
    /\ ~Present(<<"check_suite">>)
    /\ Replied(200, "Ignored based on action != completed")

----------------------------------------------------------------------------
(* C4 *)

LowerChar(c) ==
    CASE c = "X" -> "x" [] c = "G" -> "g" [] c = "H" -> "h" [] c = "E" -> "e"
      [] c = "C" -> "c" [] c = "T" -> "t" [] OTHER -> c

RECURSIVE Lower(_)
Lower(s) == IF s = "" THEN "" ELSE LowerChar(SubSeq(s, 1, 1)) \o Lower(SubSeq(s, 2, Len(s)))

\* the header map with the event-type header, however spelt, under the name X-GitHub-Event
Canonical(headers) ==
    [h \in {IF Lower(n) = "x-github-event" THEN "X-GitHub-Event" ELSE n : n \in DOMAIN headers} |->
        LET n == CHOOSE n \in DOMAIN headers :
                    h = (IF Lower(n) = "x-github-event" THEN "X-GitHub-Event" ELSE n)
        IN  headers[n]]

\* C4: the lookup of the event-type header does not depend on the letter
\* case of its name: a request answers as the request with the name spelt
\* X-GitHub-Event does
C4_HeaderNameCaseInsensitive ==
    Returned =>
        LET r == handler(config, [event EXCEPT !.headers = Canonical(@)])
        IN  outcome = [kind |-> r.kind, statusCode |-> r.statusCode, body |-> r.body,
                       exc |-> r.exc]

----------------------------------------------------------------------------
(* C5 *)

\* C5: a request whose X-GitHub-Event header is there with a value other
\* than "check_suite" gets 200 "Ignored based on X-GitHub-Event value",
\* whatever its body
C5_OtherEventIgnoredWhateverBody ==
    (Returned /\ HasEventType /\ EventType # "check_suite")
    => Replied(200, "Ignored based on X-GitHub-Event value")

\* another event type with a body json.loads would choke on
C5_Witness ==
    /\ Returned /\ HasEventType /\ EventType = "push"
    /\ event.body.kind = "deep"
    /\ Replied(200, "Ignored based on X-GitHub-Event value")

----------------------------------------------------------------------------
(* C6 *)

\* a str body that json.loads does not parse
FailsParsing(b) == b.kind = "deep" \/ (b.kind = "str" /\ b.text \in {"", "{"})

\* C6: a request without the event-type header gets 400 "Missing
\* X-GitHub-Event header" whatever its body, and a check_suite request whose
\* body fails to parse gets 400 with "Couldn't parse body" in the body:
\* never an unhandled fault and never a 200
C6_MalformedInputIs400 ==
    Returned =>
        /\ ~HasEventType => Replied(400, "Missing X-GitHub-Event header")
        /\ (HasEventType /\ EventType = "check_suite" /\ FailsParsing(event.body))
           => /\ outcome.kind = "reply"
              /\ outcome.statusCode = 400
              /\ StartsWith(outcome.body, "Couldn't parse body")

----------------------------------------------------------------------------
(* C7 *)

PRList == Doc.check_suite.pull_requests.items

\* entry i of pull_requests names a watched base repo
Matches(i) ==
    LET id == GetPath(PRList[i], <<"base", "repo", "id">>) IN
    ~id.raised /\ Contains(config.repos, id.value)

\* i is the first matching entry, and the scan gets as far as i
FirstMatch(i) ==
    /\ i \in 1..Len(PRList)
    /\ Matches(i)
    /\ \A j \in 1..(i - 1) :
         ~GetPath(PRList[j], <<"base", "repo", "id">>).raised /\ ~Matches(j)

OwnerUrl == Doc.repository.owner.html_url
RepoName == Doc.repository.name
Branch == Doc.check_suite.head_branch

\* C7: with watch_prs on, past steps 1-4, the matching PR is the first entry
\* of pull_requests whose base.repo.id is watched (later entries are not
\* examined), and it wins over the branch path whether or not head_branch is
\* watched: commit_desc is "PR #<number>", commit_html_url is
\* "<owner_html_url>/<repo_name>/pull/<number>#partial-pull-merging", and no
\* SHA is taken.  With watch_prs off the list is never scanned and only the
\* branch path can alert.
C7_FirstMatchingPRWins ==
    Returned =>
        /\ \A i \in 1..Len(PRList) :
             (config.watch_prs /\ FirstMatch(i) /\ "number" \in DOMAIN PRList[i])
             => /\ Alerted
                /\ locals.matching_pr = <<PRList[i]>>
                /\ locals.commit_desc = "PR #" \o ToString(PRList[i].number)
                /\ locals.commit_html_url
                     = OwnerUrl \o "/" \o RepoName \o "/pull/" \o ToString(PRList[i].number)
                       \o "#partial-pull-merging"
                /\ locals.sha = ""
        /\ ~config.watch_prs
             => /\ ScanLines = {}
                /\ locals.matching_pr = <<>>
                /\ IF Contains(config.branches, Branch)
                   THEN Alerted /\ locals.commit_desc
                                     = SubSeq(HeadSha, 1, 8) \o " (branch " \o Branch \o ")"
                   ELSE Replied(200, "Ignored based on no matching PR/branch")

\* two matching PRs with different numbers on a watched branch: the first is reported
C7_Witness ==
    /\ Returned /\ Alerted /\ config.watch_prs
    /\ Len(PRList) = 2
    /\ Matches(1) /\ Matches(2)
    /\ PRList[1].number # PRList[2].number
    /\ Contains(config.branches, Branch)
    /\ locals.commit_desc = "PR #" \o ToString(PRList[1].number)

----------------------------------------------------------------------------
(* C8 *)

Sha == Doc.check_suite.head_sha
OnBranchPath == Returned /\ Alerted /\ locals.matching_pr = <<>>

\* what the branch path reports besides the SHA
BranchPathVars ==
    /\ locals.commit_desc = locals.sha \o " (branch " \o Branch \o ")"
    /\ locals.commit_html_url = OwnerUrl \o "/" \o RepoName \o "/commit/" \o locals.sha
CommitterIsHeadCommitter ==
    (Returned /\ Alerted) => locals.committer = Doc.check_suite.head_commit.committer.name

\* C8 as stated: on the branch path the SHA is the prefix of head_sha of
\* length min(len(head_sha), sha_length), for every head_sha and every
\* integer sha_length; commit_desc is "<sha> (branch <head_branch>)",
\* commit_html_url is "<owner_html_url>/<repo_name>/commit/<sha>"; committer
\* is head_commit.committer.name on both paths
C8_ShaIsPrefixOfShaLength ==
    /\ OnBranchPath =>
         /\ Len(locals.sha) = Min(Len(Sha), config.sha_length)
         /\ locals.sha = SubSeq(Sha, 1, Len(locals.sha))
         /\ BranchPathVars
    /\ CommitterIsHeadCommitter

\* C8 (amended): the same for every sha_length >= 0; for a negative
\* sha_length the SHA is head_sha without its last -sha_length characters,
\* of length max(len(head_sha) + sha_length, 0)
C8_ShaIsPythonSlice ==
    /\ OnBranchPath =>
         /\ Len(locals.sha) = IF config.sha_length >= 0
                              THEN Min(Len(Sha), config.sha_length)
                              ELSE Max(Len(Sha) + config.sha_length, 0)
         /\ locals.sha = SubSeq(Sha, 1, Len(locals.sha))
         /\ BranchPathVars
    /\ CommitterIsHeadCommitter

\* a head_sha longer than a positive sha_length, cut on the branch path
C8_Witness ==
    /\ OnBranchPath
    /\ config.sha_length > 0
    /\ Len(Sha) > config.sha_length
    /\ Len(locals.sha) = config.sha_length
    /\ locals.committer = "Bob"

----------------------------------------------------------------------------
(* C10 *)

====
